---- MODULE Spec2Model ----
(***************************************************************************)
(* Model of lib/signature_tools.py (VW_Flash): the signed-image trailer    *)
(* format, its composition (sign_bin) and its detection, verification and  *)
(* stripping (read_bytes).                                                 *)
(*                                                                         *)
(* Bytes are integers 0..255 and byte strings are sequences of them; a     *)
(* text (Python str) is a sequence of Unicode code points.  Every function *)
(* of the module is an operator computing a record                         *)
(*   [status |-> "returned" | "raised", value |-> ..., exc |-> ...]        *)
(* and every call of one is an action that draws the arguments from        *)
(* bounded sets and records the outcome.                                   *)
(*                                                                         *)
(* Cryptography is idealised: SHA-256 is a 32-byte digest that changes     *)
(* whenever one bit of its input changes, and the RSA private/public       *)
(* operations of a key pair are a pair of inverse permutations of blocks,  *)
(* different for different key pairs.                                      *)
(***************************************************************************)
EXTENDS Integers, Sequences, FiniteSets, TLC

VARIABLES pc, op, args, ret, log, calls, buf

vars == <<pc, op, args, ret, log, calls, buf>>

\* ------------------------------------------------------------------ bounds

\* Longest payload the calls are given.
MaxPayloadLen == 2

\* ------------------------------------------------------- program constants

\* len(b'METADATA:' ...) fields: boxcode[0:15].ljust(15,' '), notes[0:70].ljust(70,' ')
BoxcodeWidth == 15
NotesWidth == 70
\* sig_block = bin_data[-350:] ; bin_data[0:-350]
TrailerLen == 350
\* bin_data[0:-256], sig_block[-256:-128]
SigBlockLen == 256
\* sig_block[-128:]
SigLen == 128
\* SHA256 digest size in bytes
DigestLen == 32

\* b'METADATA:'
METADATA_TAG == <<77, 69, 84, 65, 68, 65, 84, 65, 58>>

\* The Python value None (a falsy argument).
None == "<None>"

\* ------------------------------------------------------ Python primitives

Min(a, b) == IF a < b THEN a ELSE b
Max(a, b) == IF a > b THEN a ELSE b

\* Python's normalisation of a slice index against a length.
SliceIndex(i, n) == IF i < 0 THEN Max(n + i, 0) ELSE Min(i, n)

\* s[lo:hi], negative indices counted from the end, out-of-range ones clipped.
PySlice(s, lo, hi) ==
    LET a == SliceIndex(lo, Len(s))
        b == SliceIndex(hi, Len(s))
    IN  IF a >= b THEN <<>> ELSE SubSeq(s, a + 1, b)

\* s[lo:] (hi omitted).
PySliceFrom(s, lo) == PySlice(s, lo, Len(s))

\* str.ljust(width, fill): pads on the right, never truncates.
Ljust(t, width, fill) ==
    IF Len(t) >= width THEN t ELSE t \o [i \in 1..(width - Len(t)) |-> fill]

\* The UTF-8 encoding of one code point.
Utf8Char(cp) ==
    IF cp < 128 THEN <<cp>>
    ELSE IF cp < 2048 THEN <<192 + (cp \div 64), 128 + (cp % 64)>>
    ELSE IF cp < 65536
         THEN <<224 + (cp \div 4096), 128 + ((cp \div 64) % 64), 128 + (cp % 64)>>
    ELSE <<240 + (cp \div 262144), 128 + ((cp \div 4096) % 64),
           128 + ((cp \div 64) % 64), 128 + (cp % 64)>>

RECURSIVE Utf8Encode(_)
\* str.encode("utf-8")
Utf8Encode(t) ==
    IF t = <<>> THEN <<>> ELSE Utf8Char(Head(t)) \o Utf8Encode(Tail(t))

\* A truthiness test of an optional path argument (`if private_key_path:`).
Truthy(p) == p /= None /\ p /= ""

\* ----------------------------------------------------------- build_metadata

\* One fixed-width field: text[0:width].ljust(width, ' ').encode("utf-8")
EncodeField(t, width) == Utf8Encode(Ljust(PySlice(t, 0, width), width, 32))

build_metadata(boxcode, notes) ==
    METADATA_TAG \o EncodeField(boxcode, BoxcodeWidth) \o EncodeField(notes, NotesWidth)

\* ------------------------------------------------------ call outcomes

Returned(v) == [status |-> "returned", value |-> v, exc |-> "none"]
Raised(e) == [status |-> "raised", value |-> <<>>, exc |-> e]

\* ------------------------------------------------------------- key files

\* The trust anchor read by sign_bin and read_bytes.
PRIMARY_PUB == "./data/VW_Flash.pub"
\* Key files a caller may name.
PRIMARY_PRIV == "primary_private.pem"
SECONDARY_PRIV == "secondary_private.pem"
SECONDARY_PUB == "secondary_public.pem"
OTHER_PRIV == "other_private.pem"
OTHER_PUB == "other_public.pem"
GARBAGE_FILE == "not_a_key.pem"
MISSING_FILE == "no_such_file.pem"

\* The bytes of each key file, as the key they hold: three RSA-1024 key
\* pairs (1 the tool's, 2 a co-signer's, 3 a stranger's), a file that holds
\* no key, and a path with no file.  The trust anchor ./data/VW_Flash.pub
\* ships with the tool and holds the public key of pair 1.
KeyFiles ==
    (PRIMARY_PUB :> [kind |-> "public", pair |-> 1])
    @@ (PRIMARY_PRIV :> [kind |-> "private", pair |-> 1])
    @@ (SECONDARY_PUB :> [kind |-> "public", pair |-> 2])
    @@ (SECONDARY_PRIV :> [kind |-> "private", pair |-> 2])
    @@ (OTHER_PUB :> [kind |-> "public", pair |-> 3])
    @@ (OTHER_PRIV :> [kind |-> "private", pair |-> 3])
    @@ (GARBAGE_FILE :> [kind |-> "garbage", pair |-> 0])

\* open(path, 'rb').read()
OpenRead(path) ==
    IF path = None THEN Raised("TypeError")
    ELSE IF path \in DOMAIN KeyFiles THEN Returned(KeyFiles[path])
    ELSE Raised("FileNotFoundError")

\* RSA.import_key(data)
ImportKey(data) ==
    IF data.kind \in {"public", "private"} THEN Returned(data)
    ELSE Raised("ValueError")

\* ---------------------------------------------------------- cryptography

RECURSIVE LaneSum(_, _, _)
\* One byte of the digest: bytes j, j+32, j+64, ... of the content, each
\* weighted by an odd number, so that one flipped bit changes the lane.
LaneSum(c, i, acc) ==
    IF i > Len(c) THEN acc
    ELSE LaneSum(c, i + DigestLen,
                 (acc + c[i] * (2 * ((i - 1) \div DigestLen) + 1)) % 256)

\* SHA256.new(data).digest()
SHA256(c) == [j \in 1..DigestLen |-> LaneSum(c, j, Len(c) % 256)]

\* The DER prefix of DigestInfo for SHA-256.
DIGEST_INFO ==
    <<48, 49, 48, 13, 6, 9, 96, 134, 72, 1, 101, 3, 4, 2, 1, 5, 0, 4, 32>>

\* EMSA-PKCS1-v1_5 encoding of a content to the modulus size.
EncodedMessage(c) ==
    <<0, 1>> \o [i \in 1..(SigLen - DigestLen - Len(DIGEST_INFO) - 3) |-> 255]
    \o <<0>> \o DIGEST_INFO \o SHA256(c)

\* The private and public operations of key pair `pair`: inverse
\* permutations of blocks, different for different pairs.
RsaPrivate(pair, block) == [i \in 1..Len(block) |-> (block[i] + 37 * pair) % 256]
RsaPublic(pair, block) == [i \in 1..Len(block) |-> (block[i] + 256 - 37 * pair) % 256]

\* PKCS115_SigScheme(key).sign(hash): needs the private half.
Pkcs115Sign(key, c) ==
    IF key.kind /= "private" THEN Raised("TypeError")
    ELSE Returned(RsaPrivate(key.pair, EncodedMessage(c)))

\* PKCS115_SigScheme(key).verify(hash, signature): raises ValueError on a
\* signature of the wrong length or one that does not match.
Pkcs115Verify(key, c, signature) ==
    IF Len(signature) /= SigLen THEN Raised("ValueError")
    ELSE IF RsaPublic(key.pair, signature) /= EncodedMessage(c) THEN Raised("ValueError")
    ELSE Returned(FALSE)

\* ----------------------------------------------------------- sign_datablock

sign_datablock(bin_file, private_key_path) ==
    LET f == OpenRead(private_key_path)
    IN  IF f.status = "raised" THEN f
        ELSE LET k == ImportKey(f.value)
             IN  IF k.status = "raised" THEN k
                 ELSE Pkcs115Sign(k.value, bin_file)

\* --------------------------------------------------------------- verify_bin

\* A verify_bin that reports every signature as valid (return True placed
\* outside the try).
VerifyOutcomeAlwaysTrue(key, c, signature) == Returned(TRUE)

\* A verify_bin without the try/except: a signature that does not verify
\* raises to the caller.
VerifyOutcomeUncaught(key, c, signature) ==
    LET r == Pkcs115Verify(key, c, signature)
    IN  IF r.status = "raised" THEN r ELSE Returned(TRUE)

\* try: pkcs115.verify(...); return True / except: return False
VerifyOutcome(key, c, signature) ==
    IF Pkcs115Verify(key, c, signature).status = "raised"
    THEN Returned(FALSE)
    ELSE Returned(TRUE)

verify_bin(bin_file, signature, public_key_path) ==
    LET f == OpenRead(public_key_path)
    IN  IF f.status = "raised" THEN f
        ELSE LET k == ImportKey(f.value)
             IN  IF k.status = "raised" THEN k
                 ELSE VerifyOutcome(k.value, bin_file, signature)

\* ------------------------------------------------------------------ sign_bin

\* Evaluation of a name inside a function body: a local of the function,
\* else NameError (signature_tools.py binds no module-level name input_bin,
\* and its other module-level names are modules and functions).
LookupName(name, locals) ==
    IF name \in DOMAIN locals THEN Returned(locals[name])
    ELSE Raised("NameError")

\* The name sign_bin reads the content to sign from.
SignedBufferName == "input_bin"

\* `bin_file += metadata`: bytes are rebound to a new value, a bytearray is
\* extended in place, which the caller sees.
CallerBufferAfterAppend(bin_file, mutable, metadata) ==
    IF mutable THEN bin_file \o metadata ELSE bin_file

\* sign_bin: the outcome and the caller's buffer after the call.
sign_bin(bin_file, mutable, private_key_path, boxcode, notes) ==
    LET metadata == build_metadata(boxcode, notes)
        after == CallerBufferAfterAppend(bin_file, mutable, metadata)
        locals == [bin_file |-> bin_file \o metadata, metadata |-> metadata]
        in1 == LookupName(SignedBufferName, locals)
        Out(r) == [status |-> r.status, value |-> r.value, exc |-> r.exc,
                   buffer |-> after]
    IN  IF in1.status = "raised" THEN Out(in1)
        ELSE LET s1 == sign_datablock(in1.value, PRIMARY_PUB)
             IN  IF s1.status = "raised" THEN Out(s1)
                 ELSE LET s2 == IF Truthy(private_key_path)
                                THEN sign_datablock(in1.value, private_key_path)
                                ELSE s1
                      IN  IF s2.status = "raised" THEN Out(s2)
                          ELSE Out(Returned(in1.value \o s1.value \o s2.value))

\* ---------------------------------------------------------------- read_bytes

LogEntry(level, msg) == [level |-> level, msg |-> msg, data |-> <<>>]

VerifyCall(c, signature, path, outcome) ==
    [bin_file |-> c, signature |-> signature, public_key_path |-> path,
     outcome |-> outcome]

\* A read_bytes that strips the two signatures and leaves the metadata.
StripSignaturesOnly(bin_data) == PySlice(bin_data, 0, -SigBlockLen)

\* bin_data = bin_data[0:-350]
StripTrailer(bin_data) == PySlice(bin_data, 0, -TrailerLen)

\* sig_block[0:9] == b'METADATA:'
TrailerDetected(bin_data) ==
    PySlice(PySliceFrom(bin_data, -TrailerLen), 0, 9) = METADATA_TAG

\* if signature1 == signature2 / elif public_key_file / else
SecondaryBranch(signature1, signature2, public_key_file) ==
    IF signature1 = signature2 THEN "same"
    ELSE IF Truthy(public_key_file) THEN "verify"
    ELSE "nokey"

\* A read_bytes that verifies over the payload alone.
SignedContentPayloadOnly(bin_data) == PySlice(bin_data, 0, -TrailerLen)

\* The content both signatures are checked over: bin_data[0:-256]
SignedContent(bin_data) == PySlice(bin_data, 0, -SigBlockLen)

\* read_bytes on the bytes of the file: the outcome, the log records and the
\* calls of verify_bin, in order.
read_bytes(bin_data, public_key_file) ==
    LET sig_block == PySliceFrom(bin_data, -TrailerLen)
        Out(r, l, c) == [status |-> r.status, value |-> r.value, exc |-> r.exc,
                         log |-> l, calls |-> c]
    IN  IF ~TrailerDetected(bin_data) THEN Out(Returned(bin_data), <<>>, <<>>)
        ELSE
        LET log1 == << LogEntry("warning", "Found signature block in bin file, validating"),
                       [level |-> "info", msg |-> "metadata",
                        data |-> PySlice(sig_block, 0, -SigBlockLen)] >>
            signature1 == PySlice(sig_block, -SigBlockLen, -SigLen)
            signature2 == PySliceFrom(sig_block, -SigLen)
            content == SignedContent(bin_data)
            v1 == verify_bin(content, signature1, PRIMARY_PUB)
            c1 == <<VerifyCall(content, signature1, PRIMARY_PUB, v1)>>
        IN  IF v1.status = "raised" THEN Out(v1, log1, c1)
            ELSE
            LET log2 == Append(log1, IF v1.value
                                     THEN LogEntry("warning", "First signature validated")
                                     ELSE LogEntry("critical", "First signature failed!"))
                branch == SecondaryBranch(signature1, signature2, public_key_file)
            IN  IF branch = "same"
                THEN Out(Returned(StripTrailer(bin_data)),
                         Append(log2, LogEntry("warning", "No secondary signature found")),
                         c1)
                ELSE IF branch = "verify"
                THEN LET v2 == verify_bin(content, signature2, public_key_file)
                         c2 == Append(c1, VerifyCall(content, signature2, public_key_file, v2))
                     IN  IF v2.status = "raised" THEN Out(v2, log2, c2)
                         ELSE Out(Returned(StripTrailer(bin_data)),
                                  Append(log2, IF v2.value
                                               THEN LogEntry("warning", "Second signature validated")
                                               ELSE LogEntry("critical", "Second signature failed!")),
                                  c2)
                ELSE Out(Returned(StripTrailer(bin_data)),
                         Append(log2, LogEntry("info",
                             "File contains additional signature, but no public key arg provided")),
                         c1)

\* ------------------------------------------------------------------ inputs

Rep(c, n) == [i \in 1..n |-> c]

\* Code points: 'A', ' ', U+00E9 (2 bytes in UTF-8), U+20AC (3 bytes).
Chars == {65, 32, 233, 8364}

\* Texts of the lengths around the two field widths.
Texts == {Rep(c, n) : c \in Chars, n \in {0, 1, 3, 15, 16, 70, 71}}

\* Texts that fit their field in bytes (ASCII, at most 15 characters).
FittingTexts == {Rep(65, n) : n \in {0, 3, 15}}

\* Payloads: up to MaxPayloadLen bytes, all 0x00 or all 0xFF.
Payloads == {Rep(b, n) : b \in {0, 255}, n \in 0..MaxPayloadLen}

\* Every path argument a caller may pass.
PathArgs ==
    {None, "", PRIMARY_PUB, PRIMARY_PRIV, SECONDARY_PUB, SECONDARY_PRIV,
     OTHER_PUB, OTHER_PRIV, GARBAGE_FILE, MISSING_FILE}

\* A conforming composer (the layout sign_bin is documented to produce):
\* payload ++ metadata ++ sig1 ++ sig2, both signatures over payload ++
\* metadata, sig2 = sig1 without a secondary key.
Compose(payload, boxcode, notes, primary_key_path, secondary_key_path) ==
    LET content == payload \o build_metadata(boxcode, notes)
        sig1 == sign_datablock(content, primary_key_path).value
        sig2 == IF Truthy(secondary_key_path)
                THEN sign_datablock(content, secondary_key_path).value
                ELSE sig1
    IN  content \o sig1 \o sig2

\* s with bit `bit` of its byte at position pos (from 1) flipped.
FlipBit(s, pos, bit) ==
    LET w == 2 ^ bit
    IN  [s EXCEPT ![pos] = IF (s[pos] \div w) % 2 = 1 THEN s[pos] - w ELSE s[pos] + w]

\* Where a file given to read_bytes comes from.
Origin(kind, payload, boxcode, notes, primary, secondary, pos, bit, raw) ==
    [kind |-> kind, payload |-> payload, boxcode |-> boxcode, notes |-> notes,
     primary |-> primary, secondary |-> secondary, pos |-> pos, bit |-> bit,
     raw |-> raw]

\* Byte streams no composer made: short ones, ones with the tag at the
\* start of a short stream, at the start of the last 350 bytes, or one byte
\* early, with equal or different signature slots.
RawStreams ==
    { <<>>, Rep(0, 5), METADATA_TAG, METADATA_TAG \o Rep(32, 40),
      METADATA_TAG \o Rep(32, TrailerLen - 10),
      Rep(0, TrailerLen),
      METADATA_TAG \o Rep(32, TrailerLen - 8),
      METADATA_TAG \o Rep(32, 85) \o Rep(1, SigLen) \o Rep(2, SigLen),
      METADATA_TAG \o Rep(32, 85) \o Rep(1, SigLen) \o Rep(1, SigLen),
      Rep(7, 3) \o METADATA_TAG \o Rep(32, 85) \o Rep(1, SigBlockLen),
      Rep(7, 3) \o METADATA_TAG \o Rep(32, 85) \o Rep(1, SigLen) \o Rep(2, SigLen) }

\* The origin and the bytes of a file.
File(o, data) == [origin |-> o, data |-> data]

RawFiles ==
    {File(Origin("raw", <<>>, <<>>, <<>>, None, None, 0, 0, r), r) : r \in RawStreams}

\* Images of a conforming composer, signed by the tool's key or by a
\* stranger's, alone or with a co-signer.
ComposedFiles ==
    {File(Origin("composed", p, b, n, k1, k2, 0, 0, <<>>), Compose(p, b, n, k1, k2)) :
        p \in Payloads, b \in FittingTexts, n \in {<<>>, Rep(65, 70)},
        k1 \in {PRIMARY_PRIV, OTHER_PRIV}, k2 \in {None, SECONDARY_PRIV}}

\* The images of a payload composed with the tool's key, then one bit
\* flipped anywhere in the payload or in the 94 bytes of metadata.
TamperedOf(p, k2) ==
    LET image == Compose(p, Rep(65, 3), <<>>, PRIMARY_PRIV, k2)
    IN  {File(Origin("tampered", p, Rep(65, 3), <<>>, PRIMARY_PRIV, k2, pos, bit, <<>>),
              FlipBit(image, pos, bit)) :
            pos \in 1..(Len(image) - SigBlockLen), bit \in 0..7}

TamperedFiles ==
    UNION {TamperedOf(Rep(0, n), k2) : n \in 0..MaxPayloadLen, k2 \in {None, SECONDARY_PRIV}}

\* Contents and signatures given to sign_datablock and verify_bin.
Contents == {p \o build_metadata(Rep(65, 3), <<>>) : p \in Payloads} \cup {<<>>}

\* A signature: made of a content with a private key, or bytes that are no
\* signature (empty, short, one byte long or short of 128, 128 arbitrary bytes).
SignatureSources ==
    {[kind |-> "signed", content |-> c, key |-> k, raw |-> <<>>] :
        c \in Contents, k \in {PRIMARY_PRIV, SECONDARY_PRIV}}
    \cup {[kind |-> "raw", content |-> <<>>, key |-> None, raw |-> r] :
        r \in {<<>>, Rep(0, 5), Rep(0, SigLen - 1), Rep(0, SigLen), Rep(0, SigLen + 1)}}

SignatureOf(src) ==
    IF src.kind = "signed" THEN sign_datablock(src.content, src.key).value ELSE src.raw

Init ==
    /\ pc = "idle"
    /\ op = "none"
    /\ args = <<>>
    /\ ret = [status |-> "none"]
    /\ log = <<>>
    /\ calls = <<>>
    /\ buf = <<>>

\* A call of build_metadata(boxcode, notes).
CallBuildMetadata ==
    /\ pc = "idle"
    /\ \E b \in Texts, n \in Texts :
         /\ args' = [boxcode |-> b, notes |-> n]
         /\ ret' = [status |-> "returned", value |-> build_metadata(b, n)]
    /\ op' = "build_metadata"
    /\ pc' = "done"
    /\ UNCHANGED <<log, calls, buf>>

\* A call of sign_datablock(bin_file, private_key_path).
CallSignDatablock ==
    /\ pc = "idle"
    /\ \E c \in Contents, k \in PathArgs :
         /\ args' = [bin_file |-> c, private_key_path |-> k]
         /\ ret' = sign_datablock(c, k)
    /\ op' = "sign_datablock"
    /\ pc' = "done"
    /\ UNCHANGED <<log, calls, buf>>

\* A call of sign_bin(bin_file, private_key_path, boxcode, notes) on a bytes
\* or bytearray buffer of the caller; buf is that buffer after the call.
CallSignBin ==
    /\ pc = "idle"
    /\ \E p \in Payloads, m \in BOOLEAN, k \in {None, "", SECONDARY_PRIV, MISSING_FILE},
          b \in FittingTexts, n \in {<<>>, Rep(65, 70)} :
         LET r == sign_bin(p, m, k, b, n)
         IN  /\ args' = [bin_file |-> p, mutable |-> m, private_key_path |-> k,
                         boxcode |-> b, notes |-> n]
             /\ ret' = [status |-> r.status, value |-> r.value, exc |-> r.exc]
             /\ buf' = r.buffer
    /\ op' = "sign_bin"
    /\ pc' = "done"
    /\ UNCHANGED <<log, calls>>

\* A call of verify_bin(bin_file, signature, public_key_path).
CallVerifyBin ==
    /\ pc = "idle"
    /\ \E c \in Contents, s \in SignatureSources, k \in PathArgs :
         /\ args' = [bin_file |-> c, signature |-> SignatureOf(s),
                     public_key_path |-> k, source |-> s]
         /\ ret' = verify_bin(c, SignatureOf(s), k)
    /\ op' = "verify_bin"
    /\ pc' = "done"
    /\ UNCHANGED <<log, calls, buf>>

\* A call of read_bytes(file_path, public_key_file) on a file that holds a
\* raw stream or a composed image, with any path argument.
CallReadBytes ==
    /\ pc = "idle"
    /\ \E f \in RawFiles \cup ComposedFiles,
          k \in {None, "", SECONDARY_PUB, OTHER_PUB, GARBAGE_FILE, MISSING_FILE} :
         LET r == read_bytes(f.data, k)
         IN  /\ args' = [file |-> f.data, public_key_file |-> k, origin |-> f.origin]
             /\ ret' = [status |-> r.status, value |-> r.value, exc |-> r.exc]
             /\ log' = r.log
             /\ calls' = r.calls
    /\ op' = "read_bytes"
    /\ pc' = "done"
    /\ UNCHANGED buf

\* A call of read_bytes on a file that holds a tampered image, without or
\* with the co-signer's public key.
CallReadBytesTampered ==
    /\ pc = "idle"
    /\ \E f \in TamperedFiles, k \in {None, SECONDARY_PUB} :
         LET r == read_bytes(f.data, k)
         IN  /\ args' = [file |-> f.data, public_key_file |-> k, origin |-> f.origin]
             /\ ret' = [status |-> r.status, value |-> r.value, exc |-> r.exc]
             /\ log' = r.log
             /\ calls' = r.calls
    /\ op' = "read_bytes"
    /\ pc' = "done"
    /\ UNCHANGED buf

\* The caller goes on to its next call; nothing is kept between calls.
Return ==
    /\ pc = "done"
    /\ pc' = "idle"
    /\ op' = "none"
    /\ args' = <<>>
    /\ ret' = [status |-> "none"]
    /\ log' = <<>>
    /\ calls' = <<>>
    /\ buf' = <<>>

Next ==
    \/ CallBuildMetadata
    \/ CallSignDatablock
    \/ CallSignBin
    \/ CallVerifyBin
    \/ CallReadBytes
    \/ CallReadBytesTampered
    \/ Return

Spec == Init /\ [][Next]_vars

\* ------------------------------------------------------------------ claims

\* The last call was of function f and has ended.
Called(f) == pc = "done" /\ op = f

\* The logger got the message m during the last call.
Logged(m) == \E i \in 1..Len(log) : log[i].msg = m

\* A path that names a file holding a key RSA.import_key accepts.
LoadableKey(path) == path \in DOMAIN KeyFiles /\ KeyFiles[path].kind /= "garbage"

\* The first n bytes short of the end: all but the last n bytes of s.
AllButLast(s, n) == IF Len(s) <= n THEN <<>> ELSE SubSeq(s, 1, Len(s) - n)

\* The two signature slots of a stream, as the byte ranges [-2S:-S] and [-S:].
Slot1(s) == SubSeq(s, Max(Len(s) - 2 * SigLen, 0) + 1, Max(Len(s) - SigLen, 0))
Slot2(s) == SubSeq(s, Max(Len(s) - SigLen, 0) + 1, Len(s))

\* The last 350 bytes of the stream (all of it when shorter) begin with the tag.
TagAtTrailerStart(s) ==
    LET start == Max(Len(s) - TrailerLen, 0)
    IN  /\ Len(s) - start >= Len(METADATA_TAG)
        /\ SubSeq(s, start + 1, start + Len(METADATA_TAG)) = METADATA_TAG

\* The signature a signer holding the private key of pair `pair` makes of c.
GenuineSignature(pair, c) == RsaPrivate(pair, EncodedMessage(c))

\* sign_bin was called with a usable secondary key or with none.
SignBinWithValidKeys ==
    /\ Called("sign_bin")
    /\ args.private_key_path \in {None, SECONDARY_PRIV}

\* C1: round trip. An image that sign_bin composes of a payload with a
\* valid key pair is returned, and read_bytes on it with the matching public
\* key returns the payload.
C1_RoundTrip ==
    SignBinWithValidKeys =>
        /\ ret.status = "returned"
        /\ LET back == read_bytes(ret.value,
                           IF Truthy(args.private_key_path) THEN SECONDARY_PUB ELSE None)
           IN  back.status = "returned" /\ back.value = args.bin_file

\* C2: composition layout. sign_bin returns payload ++ metadata ++ sig1 ++
\* sig2, of length len(payload) + 350, sig1 made with the primary private
\* key and sig2 with the secondary one when supplied, both over payload ++
\* metadata.
C2_CompositionLayout ==
    SignBinWithValidKeys =>
        LET content == args.bin_file \o build_metadata(args.boxcode, args.notes)
            sig1 == GenuineSignature(1, content)
            sig2 == IF Truthy(args.private_key_path) THEN GenuineSignature(2, content)
                    ELSE sig1
        IN  /\ ret.status = "returned"
            /\ Len(ret.value) = Len(args.bin_file) + TrailerLen
            /\ ret.value = content \o sig1 \o sig2

\* C3: no-trailer passthrough. A stream shorter than 350 bytes, or whose
\* last 350 bytes do not begin with the tag, is returned unchanged, with no
\* signature verification and no exception.
C3_NoTrailerPassthrough ==
    (Called("read_bytes") /\ (Len(args.file) < TrailerLen \/ ~TagAtTrailerStart(args.file)))
        => /\ ret.status = "returned"
           /\ ret.value = args.file
           /\ calls = <<>>

\* The key files read_bytes has to load for this call can be loaded: the
\* caller's public key is read only when the slots differ and it is given.
ReadKeysLoadable ==
    \/ Slot1(args.file) = Slot2(args.file)
    \/ ~Truthy(args.public_key_file)
    \/ LoadableKey(args.public_key_file)

\* C4: report, don't enforce. When read_bytes detects a trailer it returns
\* the input without its last 350 bytes, whatever the outcome of the primary
\* and of the secondary verification (the key files being loadable).
C4_ReportDontEnforce ==
    (Called("read_bytes") /\ TagAtTrailerStart(args.file) /\ ReadKeysLoadable)
        => /\ ret.status = "returned"
           /\ ret.value = AllButLast(args.file, TrailerLen)

\* C4 witness: a trailer is detected, both signatures fail to verify, and a
\* payload that is not empty is returned.
C4_Witness ==
    /\ Called("read_bytes")
    /\ TagAtTrailerStart(args.file)
    /\ Logged("First signature failed!")
    /\ Logged("Second signature failed!")
    /\ ret.status = "returned"
    /\ ret.value = AllButLast(args.file, TrailerLen)
    /\ ret.value /= <<>>

\* read_bytes was called on a composed image with one bit flipped.
ReadTampered == Called("read_bytes") /\ args.origin.kind = "tampered"

\* The flipped bit lies in the 9-byte tag of the metadata.
FlipInTag ==
    /\ args.origin.pos > Len(args.origin.payload)
    /\ args.origin.pos <= Len(args.origin.payload) + Len(METADATA_TAG)

\* What read_bytes reports of a tampered image it detects the trailer of.
TamperReported ==
    /\ ret.status = "returned"
    /\ Logged("First signature failed!")
    /\ ~Logged("First signature validated")
    /\ (args.origin.secondary = SECONDARY_PRIV /\ args.public_key_file = SECONDARY_PUB)
          => (Logged("Second signature failed!") /\ ~Logged("Second signature validated"))
    /\ ret.value = AllButLast(args.file, TrailerLen)

\* C5 as claimed: a flipped bit anywhere in the payload or in the 94 bytes
\* of metadata, the tag included, makes read_bytes report the primary
\* signature (and a distinct secondary one whose key is given) invalid and
\* return the tampered stream without its trailer.
C5_TamperDetection_Original == ReadTampered => TamperReported

\* C5 amended: a flipped bit in the payload or in the 85 metadata bytes after
\* the tag is reported as above; a flipped bit in the tag makes read_bytes
\* detect no trailer: it verifies nothing, reports nothing and returns the
\* whole tampered stream.
C5_TamperDetection ==
    ReadTampered =>
        IF FlipInTag
        THEN ret.status = "returned" /\ ret.value = args.file /\ calls = <<>> /\ log = <<>>
        ELSE TamperReported

\* C5 witness: a bit of the payload of a co-signed image is flipped, both
\* signatures are reported invalid and the tampered payload is returned.
C5_Witness ==
    /\ ReadTampered
    /\ args.origin.pos <= Len(args.origin.payload)
    /\ args.origin.secondary = SECONDARY_PRIV
    /\ args.public_key_file = SECONDARY_PUB
    /\ Logged("First signature failed!")
    /\ Logged("Second signature failed!")
    /\ ret.status = "returned"
    /\ ret.value /= args.origin.payload
    /\ Len(ret.value) = Len(args.origin.payload)

\* C6: single-signer equivalence. sign_bin without a secondary key returns
\* an image whose two signature slots are equal; read_bytes on an image
\* whose slots are equal reports that there is no secondary signature and
\* verifies only the primary one, whatever public key the caller gives.
C6_SingleSignerEquivalence ==
    /\ (Called("sign_bin") /\ ~Truthy(args.private_key_path))
          => (ret.status = "returned" /\ Slot1(ret.value) = Slot2(ret.value))
    /\ (Called("read_bytes") /\ TagAtTrailerStart(args.file)
            /\ Slot1(args.file) = Slot2(args.file))
          => /\ Logged("No secondary signature found")
             /\ Len(calls) = 1
             /\ calls[1].public_key_path = PRIMARY_PUB

\* The signature given to verify_bin is the one the holder of the private
\* key of the given key file makes of the given content.
SignatureMatches ==
    /\ LoadableKey(args.public_key_path)
    /\ args.signature = GenuineSignature(KeyFiles[args.public_key_path].pair, args.bin_file)

\* C7 as claimed: verify_bin returns True or False for every content,
\* signature and key path, unreadable and unparsable key files included,
\* and True only for a signature that matches.
C7_VerifyTotal_Original ==
    Called("verify_bin") =>
        /\ ret.status = "returned"
        /\ ret.value \in BOOLEAN
        /\ (ret.value => SignatureMatches)

\* C7 amended: with a key file that can be read and parsed, verify_bin
\* returns True or False for every content and signature, malformed ones
\* included, and True exactly for a signature that matches; with a key file
\* that cannot be read or parsed it raises.
C7_VerifyTotal ==
    Called("verify_bin") =>
        IF LoadableKey(args.public_key_path)
        THEN /\ ret.status = "returned"
             /\ ret.value \in BOOLEAN
             /\ (ret.value <=> SignatureMatches)
        ELSE ret.status = "raised"

\* C7 witness: a genuine signature of the content, checked against the
\* public key of another pair, gives False.
C7_Witness ==
    /\ Called("verify_bin")
    /\ args.source.kind = "signed"
    /\ args.source.content = args.bin_file
    /\ args.source.key = PRIMARY_PRIV
    /\ args.public_key_path = OTHER_PUB
    /\ ret.status = "returned"
    /\ ret.value = FALSE

\* C8: metadata is fixed-width. build_metadata returns 94 bytes for every
\* boxcode and notes: the tag, a boxcode field of 15 bytes, a notes field of
\* 70 bytes.
C8_MetadataFixedWidth ==
    Called("build_metadata") =>
        /\ Len(ret.value) = Len(METADATA_TAG) + BoxcodeWidth + NotesWidth
        /\ SubSeq(ret.value, 1, Len(METADATA_TAG)) = METADATA_TAG

\* C9: side-effect freedom. After a call of sign_bin the caller's payload
\* buffer holds the bytes it held before, for bytes and bytearray alike.
C9_NoSideEffects == Called("sign_bin") => buf = args.bin_file

\* C10: parse decision order. On a detected trailer read_bytes first
\* verifies slot 1 with the fixed primary key over the input without its
\* last 256 bytes; then, whatever that gave, with different slots it
\* verifies slot 2 over the same content with the caller's key when one is
\* given, and with none it verifies nothing more, reports the secondary
\* signature as present but unchecked and returns.
C10_ParseDecisionOrder ==
    (Called("read_bytes") /\ TagAtTrailerStart(args.file)) =>
        LET content == AllButLast(args.file, 2 * SigLen)
            differ == Slot1(args.file) /= Slot2(args.file)
            given == Truthy(args.public_key_file)
        IN  /\ Len(calls) >= 1
            /\ calls[1].bin_file = content
            /\ calls[1].signature = Slot1(args.file)
            /\ calls[1].public_key_path = PRIMARY_PUB
            /\ (differ /\ given) =>
                  /\ Len(calls) = 2
                  /\ calls[2].bin_file = content
                  /\ calls[2].signature = Slot2(args.file)
                  /\ calls[2].public_key_path = args.public_key_file
            /\ (differ /\ ~given) =>
                  /\ Len(calls) = 1
                  /\ ret.status = "returned"
                  /\ log[Len(log)].msg =
                        "File contains additional signature, but no public key arg provided"
            /\ ~differ => Len(calls) = 1

\* C10 witness: the primary signature is invalid and the secondary one,
\* different from it, is verified all the same and found valid.
C10_Witness ==
    /\ Called("read_bytes")
    /\ TagAtTrailerStart(args.file)
    /\ Len(calls) = 2
    /\ ret.value /= <<>>
    /\ calls[1].outcome.value = FALSE
    /\ calls[2].outcome.status = "returned"
    /\ calls[2].outcome.value = TRUE
    /\ Logged("First signature failed!")
    /\ Logged("Second signature validated")

====
